---- MODULE Spec2Model ----
(***************************************************************************)
(* Model of gym_ntictactoe/envs/n_tictactoe.py: the N-dimensional          *)
(* tic-tac-toe environment NTicTacToeEnv (__init__, reset, step) and the   *)
(* line enumeration get_lines.                                             *)
(*                                                                         *)
(* Encodings.                                                              *)
(*  - A numpy array of shape (k,)*n is its C-contiguous buffer: the        *)
(*    sequence of its k^n cells, the cell of coordinate <<c1, ..., cn>>    *)
(*    (every ci in 0..k-1) at offset c1*k^(n-1) + ... + cn.                *)
(*  - A boolean array (the mask of get_lines) is the set of the positions  *)
(*    that hold True.                                                      *)
(*  - Rewards are counted in tenths: 10 is reward 1, 3 is reward 0.3.      *)
(*  - The board of __init__ has dtype uint8, the board of reset() has the  *)
(*    default dtype float64.  Storing Player.X.value = -1 into a uint8     *)
(*    array depends on the numpy the program runs on: it wraps to 255      *)
(*    (numpy 1.x) or raises OverflowError (numpy 2.x).  The variable       *)
(*    `cast` is that choice, made once per run.                            *)
(***************************************************************************)
EXTENDS Integers, Sequences, FiniteSets, TLC

VARIABLES
    board,        \* self.board: the buffer of stored numbers
    dtype,        \* self.board.dtype: "uint8" | "float64"
    whos_move,    \* self.whos_move: a Player value
    last_move,    \* self.last_move
    last_reward,  \* self.last_reward (tenths)
    ret,          \* what the call under way returned or raised, for the caller
    hist,         \* history of the current game (bookkeeping of the model)
    cast,         \* "wrap" | "raise": numpy's out-of-range integer store
    pure          \* state of a stand-alone run of get_lines / move decoding

vars == <<board, dtype, whos_move, last_move, last_reward, ret, hist, cast, pure>>

gameVars == <<board, dtype, whos_move, last_move, last_reward, ret, hist, cast>>

----------------------------------------------------------------------------
(* class Player(Enum) *)
X == -1

O == 1

Empty == 0

PlayerValues == {X, O, Empty}

(* Constructor arguments of the engine under check: NTicTacToeEnv(3, 2). *)
order == 3

dimensions == 2

(* Rewards of step, in tenths. *)
RewardWin == 10

RewardDraw == 3

RewardNone == 0

----------------------------------------------------------------------------
(* Arithmetic helpers *)
RECURSIVE Pow(_, _)
Pow(b, e) == IF e = 0 THEN 1 ELSE b * Pow(b, e - 1)

RECURSIVE SeqSum(_)
SeqSum(s) == IF s = <<>> THEN 0 ELSE Head(s) + SeqSum(Tail(s))

Reverse(s) == [i \in 1..Len(s) |-> s[Len(s) + 1 - i]]

Zeros(len) == [i \in 1..len |-> 0]

(* All coordinates of an array of shape (k,)*n. *)
Coords(n, k) == [1..n -> 0..(k - 1)]

----------------------------------------------------------------------------
(* get_lines(n, k) *)

(* Mutant: bi is fi, not fi[::-1]. *)
all_i_NoReverse(k, row, t) == IF row <= 1 THEN t ELSE row - 2

(* all_i = concatenate((fi[None], bi[None], ri)): row 0 is fi = 0..k-1,    *)
(* row 1 is bi = k-1..0, row 2+j is ri[j] = j repeated k times.            *)
all_i(k, row, t) ==
    IF row = 0 THEN t
    ELSE IF row = 1 THEN (k - 1) - t
    ELSE row - 2

(* Positions of the mask: one row of all_i per axis. *)
Selectors(n, k) == [1..n -> 0..(k + 1)]

(* index = tuple(all_i[s] for s in product_slices(n)); board[index] has     *)
(* shape (k+2,)*n + (k,): entry [a, t] is board[all_i[a1][t],...,          *)
(* all_i[an][t]].  LineOf(n, k, a) is the sequence of the k coordinates    *)
(* that position a of board[index] reads.                                  *)
LineOf(n, k, a) ==
    [t \in 1..k |-> [i \in 1..n |-> all_i(k, a[i], t - 1)]]

(* A basic-indexing tuple sl is a sequence whose entries are 0 (the index  *)
(* 0) or 2 (the slice 2:), applied to the leading axes.  InSlice is the    *)
(* set of positions mask[sl] addresses.                                    *)
InSlice(a, sl) ==
    \A j \in 1..Len(sl) : IF sl[j] = 2 THEN a[j] >= 2 ELSE a[j] = 0

(* One iteration of `for i in range(n)`: mask[sl] = True; sl = [2:] + sl *)
MaskAssign(n, k, mask, sl) ==
    mask \cup {a \in Selectors(n, k) : InSlice(a, sl)}

(* Mutant: the slice is appended to sl instead of prepended. *)
NextSlice_Appended(sl) == sl \o <<2>>

NextSlice(sl) == <<2>> \o sl

RECURSIVE MaskLoop(_, _, _, _, _)
MaskLoop(n, k, i, mask, sl) ==
    IF i >= n THEN mask
    ELSE MaskLoop(n, k, i + 1, MaskAssign(n, k, mask, sl), NextSlice(sl))

(* mask = zeros(...); sl = index_exp[0]; the loop *)
get_lines_mask(n, k) == MaskLoop(n, k, 0, {}, <<0>>)

----------------------------------------------------------------------------
(* Move decoding of step *)

(* while tmp != 0: indices += (tmp % order,); tmp = tmp // order *)
RECURSIVE Digits(_, _)
Digits(tmp, k) ==
    IF tmp = 0 THEN <<>> ELSE <<tmp % k>> \o Digits(tmp \div k, k)

(* Mutant: the higher dimensions are not padded. *)
Pad_None(indices, n) == indices

(* if len(indices) < dimensions: indices += (0,) * (dimensions - len) *)
Pad(indices, n) ==
    IF Len(indices) < n THEN indices \o Zeros(n - Len(indices)) ELSE indices

(* Mutant: the digits are not reversed. *)
decode_NoReverse(move, n, k) == Pad(Digits(move, k), n)

(* indices = tuple(reversed(indices)) *)
decode(move, n, k) == Reverse(Pad(Digits(move, k), n))

----------------------------------------------------------------------------
(* The board *)

NumCells == Pow(order, dimensions)

(* np.zeros((order,) * dimensions) *)
ZeroBoard == [m \in 1..NumCells |-> 0]

(* Offset of a coordinate in an array of shape (k,)*n, C order. *)
Offset(c, n, k) == SeqSum([i \in 1..n |-> c[i] * Pow(k, n - i)])

(* self.board[indices] *)
Read(b, c) == b[Offset(c, dimensions, order) + 1]

(* self.board.flatten() *)
flatten(b) == [m \in 1..NumCells |-> b[m]]

(* The number an assignment board[indices] = v stores. *)
Stored(dt, v) == IF dt = "uint8" THEN v % 256 ELSE v

(* Whether the assignment raises OverflowError. *)
StoreOverflows(dt, v, c) == dt = "uint8" /\ v < 0 /\ c = "raise"

(* The lines board[indices][mask] reads, computed once: each line is the   *)
(* sequence of the buffer positions of its cells.                          *)
all_lines ==
    {[t \in 1..order |->
        Offset(LineOf(dimensions, order, a)[t], dimensions, order) + 1] :
     a \in get_lines_mask(dimensions, order)}

(* sum(r) for a row r of board[indices][mask] *)
LineSum(b, line) == SeqSum([t \in 1..Len(line) |-> b[line[t]]])

(* any(sum(r) in {order, order * -1} for r in all_lines) *)
any_won(b) ==
    \E line \in all_lines : LineSum(b, line) \in {order, order * (-1)}

(* available_moves = board[board == 0] *)
available_moves(b) == {m \in DOMAIN b : b[m] = 0}

(* Mutant: the upper end of the range is accepted. *)
ValidMove_OffByOne(move) == move >= 0 /\ move <= NumCells

(* action_space.contains(move), action_space = Discrete(order**dimensions) *)
ValidMove(move) == move >= 0 /\ move < NumCells

(* Mutant: the turn is not passed on. *)
Toggle_Keep(p) == p

(* Player(self.whos_move.value * -1) *)
Toggle(p) == p * (-1)

(* Mutant: a full board without a win is rewarded like any other move. *)
Reward_NoDraw(won, avail) == IF won THEN RewardWin ELSE RewardNone

(* reward of step *)
Reward(won, avail) ==
    IF won THEN RewardWin
    ELSE IF avail = {} THEN RewardDraw
    ELSE RewardNone

(* Mutant: the test of the available moves is inverted. *)
Done_Inverted(won, avail) == won \/ avail # {}

(* done of step *)
Done(won, avail) == won \/ avail = {}

----------------------------------------------------------------------------
(* Calls and their results *)

(* Arguments the callers submit: either player on every cell and on one    *)
(* move off either end; Player.Empty and a number that is no Player value. *)
MoveInputs == (-1)..NumCells

PlayerInputs == {X, O, Empty, 2}

StepInputs == ({X, O} \X MoveInputs) \cup ({Empty, 2} \X {0})

(* No call is under way. *)
NoCall == [op |-> "none", player |-> 0, move |-> 0, raised |-> "None",
           reward |-> 0, done |-> FALSE, turn |-> 0]

(* The exceptions of step: the failed assertions by their message, the    *)
(* ValueError of Player(player), the OverflowError of the store.           *)
InvalidMove == "AssertionError: Move is invalid"

InvalidPlayer == "AssertionError: Player is invalid"

WrongTurn == "AssertionError: Not player's turn"

Occupied == "AssertionError: Could not place"

(* A call that raised. *)
Raised(what) == [NoCall EXCEPT !.op = "step", !.raised = what]

(* return self.board.flatten(), reward, done, info: the observation is    *)
(* flatten of the board the call leaves, see Observation.                  *)
Returned(player, move, reward, done, turn) ==
    [op |-> "step", player |-> player, move |-> move, raised |-> "None",
     reward |-> reward, done |-> done, turn |-> turn]

NewGame == [over |-> FALSE, nmoves |-> 0, first |-> 0, last |-> 0]

Idle == [pc |-> "idle"]

(* The engine's fields and the call's result, as one record. *)
Engine(b, wm, lm, lr, r, h) ==
    [board |-> b, whos_move |-> wm, last_move |-> lm, last_reward |-> lr,
     ret |-> r, hist |-> h]

----------------------------------------------------------------------------
(* NTicTacToeEnv.__init__(order, dimensions) *)
Init ==
    /\ board = ZeroBoard
    /\ dtype = "uint8"
    /\ whos_move = Empty
    /\ last_move = 0
    /\ last_reward = 0
    /\ ret = NoCall
    /\ hist = NewGame
    /\ cast \in {"wrap", "raise"}
    /\ pure = Idle

(* Mutant: reset keeps self.whos_move. *)
reset_KeepsTurn ==
    /\ ret = NoCall
    /\ board' = ZeroBoard
    /\ dtype' = "float64"
    /\ last_reward' = 0
    /\ last_move' = 0
    /\ ret' = [NoCall EXCEPT !.op = "reset"]
    /\ hist' = NewGame
    /\ UNCHANGED <<whos_move, cast, pure>>

(* NTicTacToeEnv.reset() *)
reset ==
    /\ ret = NoCall
    /\ board' = ZeroBoard
    /\ dtype' = "float64"
    /\ whos_move' = Empty
    /\ last_reward' = 0
    /\ last_move' = 0
    /\ ret' = [NoCall EXCEPT !.op = "reset"]
    /\ hist' = NewGame
    /\ UNCHANGED <<cast, pure>>

(* Mutant: the caller is adopted as the player to move on every call. *)
Adopt_Always(wm, player) == player

(* The turn check of step: self.whos_move after                            *)
(* `if self.whos_move == Player.Empty: self.whos_move = player`.           *)
Adopt(wm, player) == IF wm = Empty THEN player ELSE wm

(* Mutant: the cell is not tested. *)
CellFree_Always(value) == TRUE

(* assert value == Player.Empty.value *)
CellFree(value) == value = Empty

(* The part of step after the turn check: the cell test, the store, the    *)
(* win test, the toggle and the outcome.                                   *)
Place(player, move, wm) ==
    LET indices == decode(move, dimensions, order)
        value   == Read(board, indices)
    IN  IF ~CellFree(value)
        THEN Engine(board, wm, last_move, last_reward, Raised(Occupied), hist)
        ELSE IF StoreOverflows(dtype, player, cast)
        THEN Engine(board, wm, last_move, last_reward,
                    Raised("OverflowError"), hist)
        ELSE LET b      == [board EXCEPT ![Offset(indices, dimensions, order) + 1]
                                             = Stored(dtype, player)]
                 won    == any_won(b)
                 turn   == Toggle(wm)
                 avail  == available_moves(b)
                 reward == Reward(won, avail)
                 done   == Done(won, avail)
             IN  Engine(b, turn, move, reward,
                        Returned(player, move, reward, done, turn),
                        [over   |-> hist.over \/ done,
                         nmoves |-> hist.nmoves + 1,
                         first  |-> IF hist.nmoves = 0 THEN player
                                    ELSE hist.first,
                         last   |-> player])

(* What step((player, move)) does in the current state: the fields it     *)
(* leaves and what it returns or raises.                                   *)
StepOutcome(player, move) ==
    IF ~ValidMove(move)
    THEN Engine(board, whos_move, last_move, last_reward,
                Raised(InvalidMove), hist)
    ELSE IF player \notin PlayerValues
    THEN Engine(board, whos_move, last_move, last_reward,
                Raised("ValueError"), hist)
    ELSE IF ~(player = X \/ player = O)
    THEN Engine(board, whos_move, last_move, last_reward,
                Raised(InvalidPlayer), hist)
    ELSE LET wm == Adopt(whos_move, player)
         IN  IF wm # player
             THEN Engine(board, wm, last_move, last_reward,
                         Raised(WrongTurn), hist)
             ELSE Place(player, move, wm)

(* NTicTacToeEnv.step((player, move)) *)
step(player, move) ==
    /\ ret = NoCall
    /\ \E out \in {StepOutcome(player, move)} :
        /\ board' = out.board
        /\ whos_move' = out.whos_move
        /\ last_move' = out.last_move
        /\ last_reward' = out.last_reward
        /\ ret' = out.ret
        /\ hist' = out.hist
        /\ UNCHANGED <<dtype, cast, pure>>

(* The engine is synchronous: the caller takes what a call returned or     *)
(* raised before it calls again.                                           *)
Return ==
    /\ ret # NoCall
    /\ ret' = NoCall
    /\ UNCHANGED <<board, dtype, whos_move, last_move, last_reward, hist,
                   cast, pure>>

Next ==
    \/ \E in \in StepInputs : step(in[1], in[2])
    \/ reset
    \/ Return

Spec == Init /\ [][Next]_vars

(* The observation of the call under way: reset and step both end with     *)
(* `return self.board.flatten()` (step: as the first component).           *)
Observation == flatten(board)

TypeOK ==
    /\ Len(board) = NumCells
    /\ dtype \in {"uint8", "float64"}
    /\ whos_move \in PlayerValues
    /\ last_move \in 0..(NumCells - 1)
    /\ last_reward \in {RewardNone, RewardDraw, RewardWin}

----------------------------------------------------------------------------
(* Reference notions the properties are stated with *)

(* The other player. *)
Other(p) == IF p = X THEN O ELSE X

(* The cells of the board, as moves. *)
Cells == 0..(NumCells - 1)

(* The straight lines of a board of n dimensions and order k: the walks    *)
(* c0 + t*v, t = 0..k-1, that stay on the board, for the directions v in   *)
(* {-1,0,1}^n whose first nonzero component is +1.                         *)
Directions(n) ==
    {v \in [1..n -> {-1, 0, 1}] :
        \E i \in 1..n : v[i] = 1 /\ \A j \in 1..(i - 1) : v[j] = 0}

Walk(c0, v, n, k) == [t \in 1..k |-> [i \in 1..n |-> c0[i] + (t - 1) * v[i]]]

RefLines(n, k) ==
    {Walk(cv[1], cv[2], n, k) :
        cv \in {x \in Coords(n, k) \X Directions(n) :
                  \A i \in 1..n : x[1][i] + (k - 1) * x[2][i] \in 0..(k - 1)}}

(* The lines of the engine's board, as buffer positions. *)
BoardLines ==
    {[t \in 1..order |-> Offset(line[t], dimensions, order) + 1] :
     line \in RefLines(dimensions, order)}

(* Every cell of some line was placed by player p: a cell placed by p      *)
(* holds the number the store of p's value leaves in the board.            *)
HasLine(p) ==
    \E line \in BoardLines :
        \A t \in 1..Len(line) : board[line[t]] = Stored(dtype, p)

BoardFull == \A m \in 1..NumCells : board[m] # Empty

(* The call under way is a step that returned, by `player`. *)
StepReturned == ret.op = "step" /\ ret.raised = "None"

(* The caller can call: no call is under way. *)
CanCall == ret = NoCall

(* A call of step in the current state raises and changes no field. *)
Rejected(out) ==
    /\ out.ret.raised # "None"
    /\ out.board = board
    /\ out.whos_move = whos_move
    /\ out.last_move = last_move
    /\ out.last_reward = last_reward
    /\ out.hist = hist

----------------------------------------------------------------------------
(* Properties of the engine *)

(* C1: a step that returns and leaves a line whose cells were all placed   *)
(* by the acting player returns done=True and reward=1, on a freshly       *)
(* constructed engine as well as after reset(), for X and for O.           *)
C1_WinOnCompletedLine ==
    (StepReturned /\ HasLine(ret.player)) =>
        (ret.done /\ ret.reward = RewardWin)

(* C2: once a step has returned done=True, every later step before the     *)
(* next reset() is rejected and leaves the board and the turn as they are. *)
C2_TerminalRejects ==
    (CanCall /\ hist.over) =>
        \A in \in StepInputs : Rejected(StepOutcome(in[1], in[2]))

(* C3: a step that returns reward=1 leaves a line whose cells all hold the *)
(* acting player's own marker.                                             *)
C3_WinnerOwnsLine ==
    (StepReturned /\ ret.reward = RewardWin) => HasLine(ret.player)

(* C4: a step that returns with the board full and no line owned by one    *)
(* player returns done=True and the draw reward 0.3.                       *)
C4_DrawReward ==
    (StepReturned /\ BoardFull /\ ~HasLine(X) /\ ~HasLine(O)) =>
        (ret.done /\ ret.reward = RewardDraw)

C4_Witness ==
    /\ StepReturned
    /\ BoardFull
    /\ ~HasLine(X)
    /\ ~HasLine(O)
    /\ ret.done
    /\ ret.reward = RewardDraw

(* C5: in every reachable state, a step by the player to move onto a cell  *)
(* that is not Empty raises, and the board, the player to move, last_move  *)
(* and last_reward are what they were.                                     *)
C5_OccupiedRejected ==
    \A m \in Cells :
        (CanCall /\ whos_move \in {X, O}
            /\ Read(board, decode(m, dimensions, order)) # Empty) =>
            LET out == StepOutcome(whos_move, m)
            IN  out.ret.raised = Occupied /\ Rejected(out)

C5_Witness ==
    /\ ret.raised = Occupied
    /\ whos_move \in {X, O}
    /\ \E m \in Cells : Read(board, decode(m, dimensions, order)) # Empty

(* C6: once a move has succeeded, a step by the player who is not to move  *)
(* raises whatever cell it targets and leaves the board and the player to  *)
(* move as they are; a step that succeeds is by the player other than the  *)
(* one who made the last successful move.                                  *)
C6_WrongTurnRejected ==
    (CanCall /\ hist.nmoves >= 1) =>
        /\ whos_move \in {X, O}
        /\ \A m \in Cells :
              LET out == StepOutcome(Other(whos_move), m)
              IN  out.ret.raised = WrongTurn /\ Rejected(out)
        /\ \A in \in StepInputs :
              StepOutcome(in[1], in[2]).ret.raised = "None" =>
                  in[1] = Other(hist.last)

C6_Witness ==
    /\ ret.raised = WrongTurn
    /\ hist.nmoves >= 1
    /\ hist.last = Other(whos_move)

(* C7: a step with a move outside [0, N^D) or with a player that is not X  *)
(* or O (Player.Empty included) raises and changes no field, in every      *)
(* state; before the first move it adopts nobody, and neither X nor O is   *)
(* refused the first move after it.                                        *)
C7_InvalidArgsRejected ==
    CanCall =>
        /\ \A p \in PlayerInputs, m \in MoveInputs :
              (m \notin Cells \/ p \notin {X, O}) =>
                  /\ Rejected(StepOutcome(p, m))
                  /\ whos_move = Empty => StepOutcome(p, m).whos_move = Empty
        /\ whos_move = Empty =>
              \A q \in {X, O}, c \in Cells :
                  StepOutcome(q, c).ret.raised # WrongTurn

C7_Witness ==
    /\ ret.raised \in {InvalidMove, InvalidPlayer, "ValueError"}
    /\ whos_move = Empty
    /\ hist.nmoves = 0

(* C8: reset() returns a snapshot of length N^D with every cell Empty,     *)
(* clears the player to move, last_move and last_reward, and the next step *)
(* is accepted from X and from O, who becomes the first mover.             *)
C8_ResetClears ==
    ret.op = "reset" =>
        /\ Len(Observation) = NumCells
        /\ \A m \in 1..NumCells : Observation[m] = Empty
        /\ whos_move = Empty
        /\ last_move = 0
        /\ last_reward = 0
        /\ \A p \in {X, O}, m \in Cells :
              LET out == StepOutcome(p, m)
              IN  out.ret.raised = "None" /\ out.hist.first = p
                    /\ out.whos_move = Other(p)

C8_Witness ==
    /\ ret.op = "reset"
    /\ dtype = "float64"
    /\ whos_move = Empty

(* C9: after reset(), the first move of either player onto any cell        *)
(* succeeds and returns done=False and reward=0.                           *)
C9_FirstMoveContinues ==
    /\ (CanCall /\ dtype = "float64" /\ hist.nmoves = 0) =>
          \A p \in {X, O}, m \in Cells :
              LET out == StepOutcome(p, m)
              IN  /\ out.ret.raised = "None"
                  /\ ~out.ret.done
                  /\ out.ret.reward = RewardNone
    /\ (StepReturned /\ dtype = "float64" /\ hist.nmoves = 1) =>
          (~ret.done /\ ret.reward = RewardNone)

C9_Witness ==
    /\ StepReturned
    /\ dtype = "float64"
    /\ hist.nmoves = 1
    /\ ~ret.done
    /\ ret.reward = RewardNone

----------------------------------------------------------------------------
(* A stand-alone run of the two computations of step that do not depend    *)
(* on the board: the decoding of a move (the while loop, the padding, the  *)
(* reversal) and then get_lines(n, k) with its mask loop, for a board of   *)
(* n dimensions and order k.                                               *)

MaxDim == 3

MaxOrder == 4

PureStart(n, k, move) ==
    [pc |-> "decode", n |-> n, k |-> k, move |-> move,
     tmp |-> move, indices |-> <<>>, i |-> 0, mask |-> {}, sl |-> <<>>]

(* get_lines(n, k) is called: mask = np.zeros(...), sl = np.index_exp[0] *)
LinesStart(n, k) ==
    [pc |-> "get_lines", n |-> n, k |-> k, move |-> 0,
     tmp |-> 0, indices |-> <<>>, i |-> 0, mask |-> {}, sl |-> <<0>>]

InitPure ==
    /\ board = ZeroBoard
    /\ dtype = "uint8"
    /\ whos_move = Empty
    /\ last_move = 0
    /\ last_reward = 0
    /\ ret = NoCall
    /\ hist = NewGame
    /\ cast = "wrap"
    /\ \E n \in 2..MaxDim, k \in 3..MaxOrder :
          \/ \E move \in 0..(Pow(k, n) - 1) : pure = PureStart(n, k, move)
          \/ pure = LinesStart(n, k)

(* while tmp != 0: indices += (tmp % self.order,); tmp = tmp // self.order *)
DecodeIter ==
    /\ pure.pc = "decode"
    /\ pure.tmp # 0
    /\ pure' = [pure EXCEPT !.indices = @ \o <<pure.tmp % pure.k>>,
                            !.tmp = pure.tmp \div pure.k]
    /\ UNCHANGED gameVars

(* the padding and the reversal *)
DecodeFinish ==
    /\ pure.pc = "decode"
    /\ pure.tmp = 0
    /\ pure' = [pure EXCEPT !.indices = Reverse(Pad(pure.indices, pure.n)),
                            !.pc = "decoded"]
    /\ UNCHANGED gameVars

(* for i in range(n): mask[sl] = True; sl = np.index_exp[2:] + sl *)
MaskIter ==
    /\ pure.pc = "get_lines"
    /\ pure.i < pure.n
    /\ pure' = [pure EXCEPT !.mask = MaskAssign(pure.n, pure.k, pure.mask, pure.sl),
                            !.sl = NextSlice(pure.sl),
                            !.i = pure.i + 1]
    /\ UNCHANGED gameVars

(* return index, mask *)
GetLinesReturn ==
    /\ pure.pc = "get_lines"
    /\ pure.i >= pure.n
    /\ pure' = [pure EXCEPT !.pc = "done"]
    /\ UNCHANGED gameVars

NextPure == DecodeIter \/ DecodeFinish \/ MaskIter \/ GetLinesReturn

SpecPure == InitPure /\ [][NextPure]_vars

(* C10: when get_lines(n, k) returns, the number of True entries of the    *)
(* mask is ((k+2)^n - k^n) / 2; it is 8 for n=2, k=3 and 49 for n=3, k=3.  *)
C10_LineCount ==
    pure.pc = "done" =>
        /\ 2 * Cardinality(pure.mask) = Pow(pure.k + 2, pure.n) - Pow(pure.k, pure.n)
        /\ (pure.n = 2 /\ pure.k = 3) => Cardinality(pure.mask) = 8
        /\ (pure.n = 3 /\ pure.k = 3) => Cardinality(pure.mask) = 49

C10_Witness ==
    /\ pure.pc = "done"
    /\ pure.n = 3
    /\ pure.k = 3
    /\ Cardinality(pure.mask) = 49

(* The row-major index of a coordinate: sum of c[i] * k^(n-i), i = 1..n. *)
RECURSIVE RowMajorIndex(_, _)
RowMajorIndex(c, k) ==
    IF c = <<>> THEN 0
    ELSE RowMajorIndex(SubSeq(c, 1, Len(c) - 1), k) * k + c[Len(c)]

(* C11: the coordinate step decodes from a move m in [0, k^n) has n        *)
(* components in 0..k-1 and its row-major index is m; distinct moves give  *)
(* distinct coordinates and every coordinate is the decoding of a move.    *)
C11_DecodeBijection ==
    pure.pc = "decoded" =>
        /\ Len(pure.indices) = pure.n
        /\ \A i \in 1..Len(pure.indices) : pure.indices[i] \in 0..(pure.k - 1)
        /\ RowMajorIndex(pure.indices, pure.k) = pure.move
        /\ pure.indices = decode(pure.move, pure.n, pure.k)
        /\ \A m \in 0..(Pow(pure.k, pure.n) - 1) :
              m # pure.move => decode(m, pure.n, pure.k) # pure.indices
        /\ \A c \in Coords(pure.n, pure.k) :
              /\ RowMajorIndex(c, pure.k) \in 0..(Pow(pure.k, pure.n) - 1)
              /\ decode(RowMajorIndex(c, pure.k), pure.n, pure.k) = c

C11_Witness ==
    /\ pure.pc = "decoded"
    /\ pure.n = 3
    /\ pure.k = 3
    /\ pure.move = 5
    /\ pure.indices = <<0, 1, 2>>

(* The lines get_lines(n, k) selects: what index reads at the positions    *)
(* where the returned mask is True.                                        *)
SelectedLines == {LineOf(pure.n, pure.k, a) : a \in pure.mask}

(* C13: the lines get_lines selects are the reference lines: each has k    *)
(* distinct coordinates on the board, every reference line is selected,    *)
(* and no line is selected twice, as itself or reversed.                   *)
C13_LinesAreReference ==
    pure.pc = "done" =>
        LET selected == SelectedLines
        IN  /\ selected = RefLines(pure.n, pure.k)
            /\ \A line \in selected :
                  /\ Len(line) = pure.k
                  /\ \A t \in 1..Len(line) : line[t] \in Coords(pure.n, pure.k)
                  /\ \A t, u \in 1..Len(line) : t # u => line[t] # line[u]
                  /\ Reverse(line) \notin selected
            /\ Cardinality(selected) = Cardinality(pure.mask)

C13_Witness ==
    /\ pure.pc = "done"
    /\ pure.n = 3
    /\ pure.k = 3
    /\ <<(<<0, 2, 0>>), (<<1, 1, 0>>), (<<2, 0, 0>>)>> \in SelectedLines
    /\ SelectedLines = RefLines(3, 3)

-----------------------------------------------------------------------------
(* The game, continued *)

(* The number of cells holding what a store of player p's value leaves. *)
Marked(p) == Cardinality({m \in 1..NumCells : board[m] = Stored(dtype, p)})

(* C12: every cell of the board holds -1, 0 or +1, on a constructed engine *)
(* as after reset(), and the cell a returned step of X wrote holds -1.     *)
C12_CellValues ==
    /\ \A m \in 1..NumCells : board[m] \in {X, Empty, O}
    /\ (StepReturned /\ ret.player = X) => flatten(board)[ret.move + 1] = X

(* C14: a step that returns changes one entry of the flattened board, the  *)
(* one at index move, from Empty to non-Empty; and no call but reset()     *)
(* changes a non-Empty cell.                                               *)
C14_OneCellChanges ==
    [][/\ (ret'.op = "step" /\ ret'.raised = "None") =>
              /\ flatten(board)[ret'.move + 1] = Empty
              /\ flatten(board')[ret'.move + 1] # Empty
              /\ \A m \in 1..NumCells :
                    m # ret'.move + 1 => flatten(board')[m] = flatten(board)[m]
       /\ ret'.op # "reset" =>
              \A m \in 1..NumCells :
                  board[m] # Empty => board'[m] = board[m]]_vars

C14_Witness ==
    /\ StepReturned
    /\ ret.move = 5
    /\ hist.nmoves = 3
    /\ flatten(board)[6] # Empty
    /\ Cardinality({m \in 1..NumCells : board[m] # Empty}) = 3

(* C15: when a step has returned, whatever its outcome, the player to move *)
(* the engine stores and the one in the returned info is the other player, *)
(* never Empty.                                                            *)
C15_TurnPasses ==
    StepReturned =>
        /\ whos_move = Other(ret.player)
        /\ ret.turn = Other(ret.player)
        /\ whos_move # Empty
        /\ ret.turn # Empty

C15_Witness ==
    /\ StepReturned
    /\ ret.player = O
    /\ ret.done
    /\ ret.reward = RewardWin
    /\ whos_move = X

(* C16: a returned step that leaves the board full with a line of the      *)
(* caller has reward 1, not 0.3; and a returned step has done=True exactly *)
(* when its reward is not 0.                                               *)
C16_WinBeforeDraw ==
    StepReturned =>
        /\ (BoardFull /\ HasLine(ret.player)) => ret.reward = RewardWin
        /\ ret.done <=> ret.reward # RewardNone

(* C17: the cells of the game's first mover are as many as the other       *)
(* player's, or one more.                                                  *)
C17_BalancedCounts ==
    IF hist.nmoves = 0
    THEN \A m \in 1..NumCells : board[m] = Empty
    ELSE Marked(hist.first) - Marked(Other(hist.first)) \in {0, 1}

C17_Witness ==
    /\ hist.nmoves = NumCells
    /\ hist.first = X
    /\ Marked(X) = Marked(O) + 1
    /\ BoardFull

(* C18: once a step of the game has returned done=True, every later step   *)
(* of the game that returns has done=True: hist.over is the done of this   *)
(* step or of an earlier one since reset().                                *)
C18_DoneMonotone ==
    (StepReturned /\ hist.over) => ret.done

C18_Witness ==
    /\ StepReturned
    /\ hist.over
    /\ ret.done
    /\ ~HasLine(ret.player)
    /\ ~BoardFull

(* The players submit a valid move: the player to move, either player      *)
(* before the first move, onto an Empty cell.                              *)
SubmitValid ==
    \E p \in (IF whos_move = Empty THEN {X, O} ELSE {whos_move}) :
        \E m \in Cells : flatten(board)[m + 1] = Empty /\ step(p, m)

(* The game with players who keep submitting valid moves, and a caller     *)
(* who takes every result.                                                 *)
SpecLive == Spec /\ SF_vars(SubmitValid) /\ WF_vars(Return)

(* C19: at most order^dimensions steps of a game return, the               *)
(* order^dimensions-th with done=True; and with players who keep           *)
(* submitting valid moves every game comes to a step with done=True,       *)
(* unless reset() is called first.                                         *)
C19_GameEnds ==
    /\ [](/\ hist.nmoves <= NumCells
          /\ (StepReturned /\ hist.nmoves = NumCells) => ret.done)
    /\ []<>(hist.over \/ ret.op = "reset")

====
